---- MODULE Spec2Model ----
(***************************************************************************)
(* A model of the alg-dat library: the bounding volume hierarchy           *)
(* (bvh_accelerator, bvh_allocator, bvh_node), the 2D bound math it is     *)
(* instantiated with (bound2_t, vec2_t) and radix_sort.                    *)
(*                                                                         *)
(* Numbers.  real is float.  Every coordinate of the model is a small even *)
(* integer, so that centroid() = (min + max) * 0.5 is an integer and every *)
(* sum, difference, product, comparison and min/max the code performs on   *)
(* them is exact in float.  The two float limits used by bound2_t() are    *)
(* kept apart from the coordinates: FLT_MAX lies above every coordinate    *)
(* and FLT_MIN, the smallest positive normal float, lies strictly between  *)
(* 0 and the smallest positive coordinate.  Arithmetic that involves them  *)
(* (absorption of FLT_MIN by a larger operand, underflow of its square,    *)
(* overflow of FLT_MAX squared, division by zero, NaN) is modelled by the  *)
(* operators on "fnum" records below.                                      *)
(*                                                                         *)
(* Indices.  Vectors of the code (infos, pool) are functions over 0..n-1,  *)
(* so that start, end, mid, offset keep their values; elements_pool is a   *)
(* sequence, position p of the code is index p + 1.                        *)
(***************************************************************************)
EXTENDS Integers, Sequences, FiniteSets, TLC

\* --------------------------------------------------------------------------
\* Bounds of the model
\* --------------------------------------------------------------------------

\* largest number of (bound, element) pairs handed to the constructor
MaxN == 3

\* --------------------------------------------------------------------------
\* Program constants
\* --------------------------------------------------------------------------

\* nullptr of the child links
NULL == -1

\* the largest finite float; above every coordinate of the model
FLT_MAX == 1000000

\* the smallest positive normal float; below every positive coordinate
FLT_MIN == 1

\* constexpr size_t buckets_count = 12
buckets_count == 12

\* bvh_accelerator::max_elements_per_node, the default of the static tunable
default_max_elements_per_node == 255

\* size_t arithmetic wraps modulo 2^32 or 2^64; the model checker's integers
\* stop at 2^31 - 1, so the model wraps at 2^30.  All indices of the model
\* are far below each of the three.
SIZE_MODULUS == 2 ^ 30

bvh_build_mode == {"middle", "equal_counts", "surface_area_heuristic"}

\* --------------------------------------------------------------------------
\* vec2_t
\* --------------------------------------------------------------------------

std_min(a, b) == IF b < a THEN b ELSE a

std_max(a, b) == IF a < b THEN b ELSE a

vec2_min(v0, v1) == << std_min(v0[1], v1[1]), std_min(v0[2], v1[2]) >>

vec2_max(v0, v1) == << std_max(v0[1], v1[1]), std_max(v0[2], v1[2]) >>

\* --------------------------------------------------------------------------
\* bound2_t
\* --------------------------------------------------------------------------

\* bound2_t() : min(FLT_MAX), max(FLT_MIN)
bound2_default == [min |-> << FLT_MAX, FLT_MAX >>, max |-> << FLT_MIN, FLT_MIN >>]

\* bound2_t(const vec2_t &min, const vec2_t &max)
bound2_points(p, q) == [min |-> vec2_min(p, q), max |-> vec2_max(p, q)]

\* bound2_t(const bound2_t &b0, const bound2_t &b1)
bound2_merge(b0, b1) ==
    [min |-> vec2_min(b0.min, b1.min), max |-> vec2_max(b0.max, b1.max)]

\* void apply(const bound2_t &bound)
apply_bound(bound, other) ==
    [min |-> vec2_min(bound.min, other.min), max |-> vec2_max(bound.max, other.max)]

\* void apply(const vec2_t &point)
apply_point(bound, point) ==
    [min |-> vec2_min(bound.min, point), max |-> vec2_max(bound.max, point)]

max_dimension(bound) ==
    IF bound.max[1] - bound.min[1] > bound.max[2] - bound.min[2] THEN 0 ELSE 1

max_property(bound, dim) == bound.max[dim + 1]

min_property(bound, dim) == bound.min[dim + 1]

\* (min + max) * 0.5; exact because the coordinates are even
centroid(bound) ==
    << (bound.min[1] + bound.max[1]) \div 2, (bound.min[2] + bound.max[2]) \div 2 >>

centroid_dim(bound, dim) == centroid(bound)[dim + 1]

intersect(b0, b1) ==
    IF b0.min[1] > b1.max[1] \/ b0.max[1] < b1.min[1] THEN FALSE
    ELSE IF b0.min[2] > b1.max[2] \/ b0.max[2] < b1.min[2] THEN FALSE
    ELSE TRUE

\* --------------------------------------------------------------------------
\* float addition of two coordinates.  A float carries every integer below
\* FLT_EXACT; from there on the spacing of neighbouring floats doubles with
\* every power of two, and a sum that falls between two floats is rounded to
\* the nearest one, a tie to the one with the even mantissa.  (float has
\* FLT_EXACT = 2^24; the model shortens the mantissa as it shortens FLT_MAX.)
\* --------------------------------------------------------------------------

FLT_EXACT == 2 ^ 16

RECURSIVE float_spacing(_)
float_spacing(magnitude) ==
    IF magnitude < FLT_EXACT THEN 1 ELSE 2 * float_spacing(magnitude \div 2)

float_round(x) ==
    LET magnitude == IF x < 0 THEN -x ELSE x
        spacing == float_spacing(magnitude)
        below == (magnitude \div spacing) * spacing
        rest == magnitude - below
        nearest == IF 2 * rest < spacing THEN below
                   ELSE IF 2 * rest > spacing THEN below + spacing
                   ELSE IF (below \div spacing) % 2 = 0 THEN below
                   ELSE below + spacing
    IN  IF x < 0 THEN -nearest ELSE nearest

float_add(a, b) == float_round(a + b)

\* --------------------------------------------------------------------------
\* float values that may involve FLT_MIN, FLT_MAX, infinity or NaN:
\* k = "fin": the value n + e * FLT_MIN, where n # 0 implies e = 0
\* (FLT_MIN is absorbed by any operand of the coordinates' magnitude)
\* --------------------------------------------------------------------------

fnum(n) == [k |-> "fin", n |-> n, e |-> 0]

fnum_eps(e) == [k |-> "fin", n |-> 0, e |-> e]

fnum_inf == [k |-> "inf", n |-> 0, e |-> 0]

fnum_nan == [k |-> "nan", n |-> 0, e |-> 0]

fnum_is_zero(a) == a.k = "fin" /\ a.n = 0 /\ a.e = 0

fnum_is_huge(a) == a.k = "fin" /\ (a.n >= FLT_MAX \/ a.n <= -FLT_MAX)

\* max - min of one axis, as float
fnum_sub(maxc, minc) ==
    IF maxc = FLT_MIN
    THEN (IF minc = 0 THEN fnum_eps(1) ELSE fnum(-minc))
    ELSE fnum(maxc - minc)

fnum_mul(a, b) ==
    IF a.k = "nan" \/ b.k = "nan" THEN fnum_nan
    ELSE IF a.k = "inf" \/ b.k = "inf"
         THEN (IF fnum_is_zero(a) \/ fnum_is_zero(b) THEN fnum_nan ELSE fnum_inf)
    ELSE IF fnum_is_huge(a) /\ fnum_is_huge(b) THEN fnum_inf
    ELSE IF a.n # 0 /\ b.n # 0 THEN fnum(a.n * b.n)
    ELSE IF a.n # 0 THEN fnum_eps(a.n * b.e)
    ELSE IF b.n # 0 THEN fnum_eps(a.e * b.n)
    ELSE fnum(0)

fnum_add(a, b) ==
    IF a.k = "nan" \/ b.k = "nan" THEN fnum_nan
    ELSE IF a.k = "inf" \/ b.k = "inf" THEN fnum_inf
    ELSE IF a.n + b.n # 0 THEN fnum(a.n + b.n)
    ELSE fnum_eps(a.e + b.e)

\* (max.x - min.x) * (max.y - min.y)
surface_area(bound) ==
    fnum_mul(fnum_sub(bound.max[1], bound.min[1]),
             fnum_sub(bound.max[2], bound.min[2]))

\* --------------------------------------------------------------------------
\* State
\* --------------------------------------------------------------------------

VARIABLES
    phase,                  \* "idle", "building", "built"; "aborted" (assert),
                            \* "thrown" (exception), "crashed" (memory fault)
    ndebug,                 \* the build defines NDEBUG: assert() does nothing
    arena,                  \* node arrays obtained with new[] and not released
    oob_read,               \* an element outside infos has been read
    mode,                   \* bvh_accelerator::mode
    max_elements_per_node,  \* bvh_accelerator::max_elements_per_node
    in_bounds,              \* the constructor's argument bounds
    in_elements,            \* the constructor's argument elements
    infos,                  \* std::vector<element_info> infos of the constructor
    pool,                   \* bvh_allocator::pool
    count,                  \* bvh_allocator::count
    max_count,              \* bvh_allocator::max_count
    root,                   \* bvh_accelerator::root
    elements_pool,          \* bvh_accelerator::elements_pool (new_order)
    stack,                  \* the activations of recursive_build
    node_range,             \* for each allocated node, the range it was built over
    split_calls,            \* number of calls of split() so far
    query,                  \* argument of the last enumerate_contacts
    contacts,               \* result of the last enumerate_contacts
    rs_phase,               \* radix_sort: "idle", "input", "sorted"
    rs_key_size,            \* radix_sort: sizeof(KeyType)
    rs_input,               \* radix_sort: [begin, end) when radix_sort was called
    rs_array,               \* radix_sort: [begin, end) now
    readers,                \* the callers of enumerate_contacts and their activations
    sa_phase,               \* stack_allocator: "idle", "ready"; "aborted" (assert),
                            \* "hung" (endless loop), "crashed", "corrupt" (see Undefined)
    sa_ndebug,              \* stack_allocator: the build defines NDEBUG
    mExpandFactor,          \* allocator_interface::mExpandFactor
    mMemorySpace,           \* allocator_interface::mMemorySpace
    mMemorySize,            \* allocator_interface::mMemorySize
    mElements,              \* element_allocator_interface::mElements: the elements
                            \* alive in the slots 0 .. mMemorySize - 1, by identity
    sa_created,             \* number of Element constructors run so far
    sa_last,                \* the last call on the stack_allocator and what it did
    sa_prev,                \* the call before it
    sp_phase,               \* split(): "idle", "called", "returned"
    sp_mode,                \* split(): bvh_accelerator::mode
    sp_max_elements,        \* split(): bvh_accelerator::max_elements_per_node
    sp_infos,               \* split(): infos when split() is called
    sp_start,               \* split(): start
    sp_end,                 \* split(): end
    sp_result               \* split(): infos when it returns, and the index returned

bvh_vars == << phase, ndebug, arena, oob_read, mode, max_elements_per_node, in_bounds,
              in_elements, infos,
               pool, count, max_count, root, elements_pool, stack, node_range,
               split_calls, query, contacts >>

radix_vars == << rs_phase, rs_key_size, rs_input, rs_array >>

reader_vars == << readers >>

stack_vars == << sa_phase, sa_ndebug, mExpandFactor, mMemorySpace, mMemorySize,
                 mElements, sa_created, sa_last, sa_prev >>

split_vars == << sp_phase, sp_mode, sp_max_elements, sp_infos, sp_start, sp_end,
                 sp_result >>

vars == << bvh_vars, radix_vars, reader_vars, stack_vars, split_vars >>

\* --------------------------------------------------------------------------
\* Inputs of the model
\* --------------------------------------------------------------------------

box(x0, y0, x1, y1) == bound2_points(<< x0, y0 >>, << x1, y1 >>)

\* the volumes the caller may pass: one with negative coordinates only; two
\* of zero width on one line, the first with the same centroid (-4, -4) as
\* the negative one; two long overlapping ones
Boxes ==
    { box(-6, -6, -2, -2), box(-4, -8, -4, 0), box(-4, -2, -4, 0),
      box(0, 0, 32, 2), box(0, 0, 30, 2) }

\* the volumes enumerate_contacts is asked about: one inside the long
\* volumes, one that touches a zero-width volume in a point, one that touches
\* the longest volume only, one that meets nothing
Queries ==
    { box(0, 0, 2, 2), box(-4, -4, -2, -2), box(32, 0, 40, 2), box(100, 100, 102, 102) }

\* the values the caller may give the static tunable
MaxElementsChoices == {1, 2, default_max_elements_per_node}

\* --------------------------------------------------------------------------
\* bvh_node
\* --------------------------------------------------------------------------

\* a value-initialised bvh_node (new node[max_count])
bvh_node_default ==
    [bound |-> bound2_default, left |-> NULL, right |-> NULL,
     axis |-> 0, offset |-> 0, count |-> 0]

is_leaf(n) == n.left = NULL /\ n.right = NULL

\* faulty variant: the offset is not stored
leaf_without_offset(b, offset, cnt) ==
    [bound |-> b, left |-> NULL, right |-> NULL,
     axis |-> 0, offset |-> 0, count |-> cnt]

\* faulty variant: the count is not stored
leaf_without_count(b, offset, cnt) ==
    [bound |-> b, left |-> NULL, right |-> NULL,
     axis |-> 0, offset |-> offset, count |-> 0]

leaf(b, offset, cnt) ==
    [bound |-> b, left |-> NULL, right |-> NULL,
     axis |-> 0, offset |-> offset, count |-> cnt]

\* faulty variant: the left child is stored in both links
node_left_twice(p, axis, left, right) ==
    [bound |-> bound2_merge(p[left].bound, p[right].bound),
     left |-> left, right |-> left, axis |-> axis, offset |-> 0,
     count |-> p[left].count + p[right].count]

\* faulty variant: the count of the right child is not added
node_without_right_count(p, axis, left, right) ==
    [bound |-> bound2_merge(p[left].bound, p[right].bound),
     left |-> left, right |-> right, axis |-> axis, offset |-> 0,
     count |-> p[left].count]

\* node::node(axis, left, right); p is the pool the two links point into
node(p, axis, left, right) ==
    [bound |-> bound2_merge(p[left].bound, p[right].bound),
     left |-> left, right |-> right, axis |-> axis, offset |-> 0,
     count |-> p[left].count + p[right].count]

\* --------------------------------------------------------------------------
\* std::partition and std::nth_element: the standard fixes what the result
\* satisfies, not which permutation it is, so each is the set of all
\* permutations of the range that satisfy the postcondition
\* --------------------------------------------------------------------------

range_permutations(start, end) == Permutations(start .. end - 1)

\* faulty variant: the swap moves the bound of a record and leaves its element
permuted_bounds_only(v, p) ==
    [i \in DOMAIN v |-> IF i \in DOMAIN p
                        THEN [bound |-> v[p[i]].bound, element |-> v[i].element]
                        ELSE v[i]]

permuted(v, p) == [i \in DOMAIN v |-> IF i \in DOMAIN p THEN v[p[i]] ELSE v[i]]

\* pred[i] is the value of the predicate on v[i].  The set of records
\* [infos, mid]: the elements with the predicate first, mid the first
\* position of the second group
std_partition(v, start, end, pred) ==
    UNION { { [infos |-> w, mid |-> m] :
                w \in { permuted(v, p) : p \in
                          { q \in range_permutations(start, end) :
                              \A i \in start .. end - 1 : pred[q[i]] <=> i < m } } } :
              m \in { start + Cardinality({ i \in start .. end - 1 : pred[i] }) } }

\* key[i] is the value v[i] is compared by (with <).  The set of vectors:
\* nothing before nth is greater than it, nothing after nth is less than it
std_nth_element(v, start, nth, end, key) ==
    { permuted(v, p) : p \in
        { q \in range_permutations(start, end) :
            /\ \A i \in start .. nth - 1 : ~ (key[q[nth]] < key[q[i]])
            /\ \A j \in nth + 1 .. end - 1 : ~ (key[q[j]] < key[q[nth]]) } }

\* --------------------------------------------------------------------------
\* split strategies; each is the set of its possible outcomes [infos, mid]
\* --------------------------------------------------------------------------

\* faulty variant: the middle index is rounded up
split_equal_counts_upper(v, centroid_bound, bounds, dim, start, end) ==
    LET mid == (start + end + 1) \div 2
    IN  { [infos |-> w, mid |-> mid] :
            w \in std_nth_element(v, start, mid, end,
                    [i \in start .. end - 1 |-> centroid_dim(v[i].bound, dim)]) }

split_equal_counts(v, centroid_bound, bounds, dim, start, end) ==
    LET mid == (start + end) \div 2
    IN  { [infos |-> w, mid |-> mid] :
            w \in std_nth_element(v, start, mid, end,
                    [i \in start .. end - 1 |-> centroid_dim(v[i].bound, dim)]) }

\* faulty variant: the result of std::partition is returned as it is
split_middle_without_fallback(v, centroid_bound, bounds, dim, start, end) ==
    LET mid_position2 == float_add(min_property(centroid_bound, dim),
                                   max_property(centroid_bound, dim))
    IN  std_partition(v, start, end,
            [i \in start .. end - 1 |->
                2 * centroid_dim(v[i].bound, dim) < mid_position2])

\* mid_position = (min + max) * 0.5f may be a half; the comparison
\* centroid < mid_position is made on the doubled values
split_middle(v, centroid_bound, bounds, dim, start, end) ==
    LET mid_position2 == float_add(min_property(centroid_bound, dim),
                                   max_property(centroid_bound, dim))
        parts == std_partition(v, start, end,
                    [i \in start .. end - 1 |->
                        2 * centroid_dim(v[i].bound, dim) < mid_position2])
    IN  UNION { IF o.mid = start \/ o.mid = end
                THEN split_equal_counts(o.infos, centroid_bound, bounds, dim, start, end)
                ELSE {o} : o \in parts }

\* static_cast<size_t>(buckets_count * ((centroid - min) / (max - min))),
\* then "if (location == buckets_count) location = buckets_count - 1"
bucket_location(info, centroid_bound, dim) ==
    LET location ==
            (buckets_count * (centroid_dim(info.bound, dim) - min_property(centroid_bound, dim)))
                \div (max_property(centroid_bound, dim) - min_property(centroid_bound, dim))
    IN  IF location = buckets_count THEN buckets_count - 1 ELSE location

\* bucket_info() : count(0), bounds default-constructed
bucket_info_default == [count |-> 0, bounds |-> bound2_default]

\* the buckets after the loop "for (auto i = start; i < end; i++)" has
\* handled the elements start .. i - 1
RECURSIVE fill_buckets(_, _, _, _, _)
fill_buckets(v, centroid_bound, dim, start, i) ==
    IF i = start THEN [b \in 0 .. buckets_count - 1 |-> bucket_info_default]
    ELSE CHOOSE after \in
           { [before EXCEPT ![location] =
                 [count |-> before[location].count + 1,
                  bounds |-> apply_bound(before[location].bounds, v[i - 1].bound)]] :
               before \in {fill_buckets(v, centroid_bound, dim, start, i - 1)},
               location \in {bucket_location(v[i - 1], centroid_bound, dim)} } : TRUE

\* info0 / info1 of cost_surface_area_heuristic after merging buckets lo .. i - 1
RECURSIVE merge_buckets(_, _, _)
merge_buckets(buckets, lo, i) ==
    IF i <= lo THEN bucket_info_default
    ELSE CHOOSE after \in
           { [count |-> before.count + buckets[i - 1].count,
              bounds |-> apply_bound(before.bounds, buckets[i - 1].bounds)] :
               before \in {merge_buckets(buckets, lo, i - 1)} } : TRUE

\* a cost is travel_cost + num / den * test_cost with travel_cost = 0.125f and
\* test_cost = 1: k = "fin" is the value 1/8 + n / d with d > 0
cost_surface_area_heuristic(buckets, bounds, location) ==
    CHOOSE cost \in
      { IF num.k = "nan" \/ den.k = "nan" THEN [k |-> "nan", n |-> 0, d |-> 1]
        ELSE IF fnum_is_zero(den)
             THEN (IF fnum_is_zero(num) THEN [k |-> "nan", n |-> 0, d |-> 1]
                   ELSE [k |-> "inf", n |-> 0, d |-> 1])
        ELSE IF num.k = "inf" THEN [k |-> "inf", n |-> 0, d |-> 1]
        ELSE [k |-> "fin", n |-> num.n, d |-> den.n] :
          num \in { fnum_add(fnum_mul(fnum(info0.count), surface_area(info0.bounds)),
                             fnum_mul(fnum(info1.count), surface_area(info1.bounds))) :
                      info0 \in {merge_buckets(buckets, 0, location + 1)},
                      info1 \in {merge_buckets(buckets, location + 1, buckets_count)} },
          den \in {surface_area(bounds)} } : TRUE

\* a > b on two costs (false when either is NaN)
cost_greater(a, b) ==
    IF a.k = "nan" \/ b.k = "nan" THEN FALSE
    ELSE IF a.k = "inf" THEN b.k = "fin"
    ELSE IF b.k = "inf" THEN FALSE
    ELSE a.n * b.d > b.n * a.d

\* faulty variant: a <= c
cost_less_equal_count(a, c) ==
    IF a.k = "fin" THEN a.d + 8 * a.n <= 8 * c * a.d ELSE FALSE

\* a < c for a cost a and an element count c
cost_less_count(a, c) ==
    IF a.k = "fin" THEN a.d + 8 * a.n < 8 * c * a.d ELSE FALSE

\* [cost, location] after the loop "for (size_t i = 1; i < buckets_count - 1; i++)"
\* has handled the locations 1 .. i
RECURSIVE min_cost_search(_, _, _)
min_cost_search(buckets, bounds, i) ==
    IF i = 0 THEN [cost |-> cost_surface_area_heuristic(buckets, bounds, 0), location |-> 0]
    ELSE CHOOSE after \in
           { IF cost_greater(before.cost, cost)
             THEN [cost |-> cost, location |-> i]
             ELSE before :
               before \in {min_cost_search(buckets, bounds, i - 1)},
               cost \in {cost_surface_area_heuristic(buckets, bounds, i)} } : TRUE

\* "start - end" on size_t
small_range(start, end) == ((start - end) % SIZE_MODULUS) <= 4

\* faulty variant: both conditions are required for a split
do_split_and(min_cost, leaf_cost, max_elements) ==
    cost_less_count(min_cost, leaf_cost) /\ max_elements < leaf_cost

\* min_cost < leaf_cost || max_elements_per_node < leaf_cost
do_split(min_cost, leaf_cost, max_elements) ==
    cost_less_count(min_cost, leaf_cost) \/ max_elements < leaf_cost

split_surface_area_heuristic(v, centroid_bound, bounds, dim, start, end, max_elements) ==
    IF small_range(start, end)
    THEN split_equal_counts(v, centroid_bound, bounds, dim, start, end)
    ELSE UNION
           { IF do_split(best.cost, end - start, max_elements)
             THEN std_partition(v, start, end,
                     [i \in start .. end - 1 |->
                         bucket_location(v[i], centroid_bound, dim) <= best.location])
             ELSE { [infos |-> v, mid |-> start] } :
               best \in { min_cost_search(buckets, bounds, buckets_count - 2) :
                            buckets \in {fill_buckets(v, centroid_bound, dim, start, end)} } }

\* switch (mode); the default branch throws: no outcome
split(m, v, centroid_bound, bounds, dim, start, end, max_elements) ==
    CASE m = "middle" -> split_middle(v, centroid_bound, bounds, dim, start, end)
      [] m = "equal_counts" -> split_equal_counts(v, centroid_bound, bounds, dim, start, end)
      [] m = "surface_area_heuristic" ->
            split_surface_area_heuristic(v, centroid_bound, bounds, dim, start, end, max_elements)
      [] OTHER -> {}

\* --------------------------------------------------------------------------
\* bvh_allocator and the pieces of recursive_build
\* --------------------------------------------------------------------------

\* faulty variant: one slot per element
allocator_capacity_single(bounds_size, elements_size) == std_min(bounds_size, elements_size)

\* allocator(std::min(bounds.size(), elements.size()) * 2)
allocator_capacity(bounds_size, elements_size) == std_min(bounds_size, elements_size) * 2

\* faulty variant: the assertion lets the cursor reach max_count
allocate_allowed_inclusive(cnt, max_cnt) == cnt <= max_cnt

\* assert(count < max_count) of allocate()
allocate_allowed(cnt, max_cnt) == cnt < max_cnt

\* faulty variant: the local "bounds" starts as a default-constructed bound
RECURSIVE range_bounds_from_default(_, _, _)
range_bounds_from_default(v, start, i) ==
    IF i = start THEN bound2_default
    ELSE apply_bound(range_bounds_from_default(v, start, i - 1), v[i - 1].bound)

\* the local "bounds" after the loop has applied infos[start .. i - 1]
RECURSIVE range_bounds(_, _, _)
range_bounds(v, start, i) ==
    IF i = start THEN v[start].bound
    ELSE apply_bound(range_bounds(v, start, i - 1), v[i - 1].bound)

\* the local "centroid_bound" after the loop has applied infos[start .. i - 1]
RECURSIVE range_centroid_bound(_, _, _)
range_centroid_bound(v, start, i) ==
    IF i = start THEN bound2_points(centroid(v[start].bound), centroid(v[start].bound))
    ELSE apply_point(range_centroid_bound(v, start, i - 1), centroid(v[i - 1].bound))

\* "same centroid, so push them into a leaf node"
same_centroid(centroid_bound, dim) ==
    max_property(centroid_bound, dim) = min_property(centroid_bound, dim)

\* faulty variant: the loop pushes infos[start].element every time
pushed_elements_first(v, start, end) == [i \in 1 .. end - start |-> v[start].element]

\* faulty variant: the loop runs from end - 1 down to start
pushed_elements_reversed(v, start, end) == [i \in 1 .. end - start |-> v[end - i].element]

\* what "for (auto i = start; i < end; i++) new_order.push_back(infos[i].element)"
\* appends
pushed_elements(v, start, end) == [i \in 1 .. end - start |-> v[start + i - 1].element]

\* the two recursive_build calls are arguments of one call of node::node; the
\* language leaves the order in which they are evaluated to the compiler
evaluation_orders == {"left_first", "right_first"}

call_frame(start, end) ==
    [start |-> start, end |-> end, pc |-> "call", node |-> NULL, dim |-> 0,
     mid |-> 0, order |-> "left_first", left |-> NULL, right |-> NULL]

\* faulty variant: the first recursion is made on the whole range
first_child_whole_range(f) == call_frame(f.start, f.end)

first_child(f) ==
    IF f.order = "left_first" THEN call_frame(f.start, f.mid) ELSE call_frame(f.mid, f.end)

second_child(f) ==
    IF f.order = "left_first" THEN call_frame(f.mid, f.end) ELSE call_frame(f.start, f.mid)

\* --------------------------------------------------------------------------
\* enumerate_contacts
\* --------------------------------------------------------------------------

\* faulty variant: the right child is visited only when the left one reported nothing
RECURSIVE recursive_enumerate_contacts_either(_, _, _, _)
recursive_enumerate_contacts_either(p, n, bound, acc) ==
    IF ~ intersect(p[n].bound, bound) THEN acc
    ELSE IF is_leaf(p[n]) THEN Append(acc, << p[n].offset, p[n].count >>)
    ELSE LET l == recursive_enumerate_contacts_either(p, p[n].left, bound, acc)
         IN  IF l # acc THEN l
             ELSE recursive_enumerate_contacts_either(p, p[n].right, bound, l)

\* faulty variant: a leaf is reported before its bound is tested
RECURSIVE recursive_enumerate_contacts_leaf_first(_, _, _, _)
recursive_enumerate_contacts_leaf_first(p, n, bound, acc) ==
    IF is_leaf(p[n]) THEN Append(acc, << p[n].offset, p[n].count >>)
    ELSE IF ~ intersect(p[n].bound, bound) THEN acc
    ELSE recursive_enumerate_contacts_leaf_first(p, p[n].right, bound,
            recursive_enumerate_contacts_leaf_first(p, p[n].left, bound, acc))

RECURSIVE recursive_enumerate_contacts(_, _, _, _)
recursive_enumerate_contacts(p, n, bound, acc) ==
    IF ~ intersect(p[n].bound, bound) THEN acc
    ELSE IF is_leaf(p[n]) THEN Append(acc, << p[n].offset, p[n].count >>)
    ELSE recursive_enumerate_contacts(p, p[n].right, bound,
            recursive_enumerate_contacts(p, p[n].left, bound, acc))

\* --------------------------------------------------------------------------
\* callers of enumerate_contacts that run at the same time.  Each caller has
\* its own activations of recursive_enumerate_contacts (todo: the nodes whose
\* activation is still to run, the next one first) and its own local vector
\* contacts; pool and root are the members all of them read.
\* --------------------------------------------------------------------------

\* number of callers that run at the same time
MaxReaders == 2

Readers == 1 .. MaxReaders

\* faulty variant: the vector contacts is one object shared by the callers
reader_step_shared_contacts(rs, r, p) ==
    LET n == Head(rs[r].todo)
        rest == Tail(rs[r].todo)
    IN  IF ~ intersect(p[n].bound, rs[r].bound)
        THEN [rs EXCEPT ![r].todo = rest]
        ELSE IF is_leaf(p[n])
        THEN [q \in DOMAIN rs |->
                IF q = r
                THEN [rs[q] EXCEPT !.todo = rest,
                                   !.contacts = Append(@, << p[n].offset, p[n].count >>)]
                ELSE IF rs[q].pc = "running"
                THEN [rs[q] EXCEPT !.contacts = Append(@, << p[n].offset, p[n].count >>)]
                ELSE rs[q]]
        ELSE [rs EXCEPT ![r].todo = << p[n].left, p[n].right >> \o rest]

\* one activation of recursive_enumerate_contacts of caller r: the node is
\* skipped, reported, or replaced by the activations for its two children
reader_step(rs, r, p) ==
    LET n == Head(rs[r].todo)
        rest == Tail(rs[r].todo)
    IN  IF ~ intersect(p[n].bound, rs[r].bound)
        THEN [rs EXCEPT ![r].todo = rest]
        ELSE IF is_leaf(p[n])
        THEN [rs EXCEPT ![r].todo = rest,
                        ![r].contacts = Append(@, << p[n].offset, p[n].count >>)]
        ELSE [rs EXCEPT ![r].todo = << p[n].left, p[n].right >> \o rest]

\* --------------------------------------------------------------------------
\* stack_allocator<Element, expand_class_mul>.  An element is known by the
\* number of the constructor call that made it; mElements[i] is the element
\* alive in slot i.
\* --------------------------------------------------------------------------

\* largest count given to allocate and deallocate
MaxCount == 3

\* the model stops constructing after this many elements
MaxCreated == 6

\* stack_allocator(size_type space, size_type factor = 2)
StackSpaces == {2, 3}

StackFactors == {2, 3}

\* a call on the allocator: what was called, with which count, size() before
\* it, the elements it constructed and the elements it destroyed, in order
no_call ==
    [op |-> "none", count |-> 0, size_before |-> 0, created |-> << >>, destroyed |-> << >>]

\* "while (space < space_need) space = space * allocator->factor()"
RECURSIVE grown_space(_, _, _)
grown_space(space, factor, space_need) ==
    IF space < space_need THEN grown_space(space * factor, factor, space_need) ELSE space

\* expand_class_mul::operator(): "return space - allocator->space()"
expand_class_mul(space, factor, space_need) ==
    grown_space(space, factor, space_need) - space

\* the loop of expand_class_mul never ends: space stays 0
expand_hangs(space, space_need) == space = 0 /\ space < space_need

\* "if (base::mMemorySpace > space_need) return"
enough_space(space, space_need) == space > space_need

\* mMemorySpace after expand_if_not_enough(space_need)
expanded_space(space, factor, space_need) ==
    IF enough_space(space, space_need) \/ expand_hangs(space, space_need) THEN space
    ELSE expand_class_mul(space, factor, space_need)

\* what a write or a destructor call outside the block of mElements may do:
\* the process takes a memory fault, or the call returns with foreign memory
\* touched; the model follows the allocator no further in either case
Undefined == {"crashed", "corrupt"}

\* the elements deallocate(count) destroys, in the order of the loop
\* "for (auto it = begin; it != end; --it) it->~Element()" from slot
\* size - 1 down to slot size - count
destroyed_elements(elements, size, cnt) ==
    [i \in 1 .. cnt |-> elements[size - i]]

\* --------------------------------------------------------------------------
\* radix_sort<KeyType, T> with the default key function (the key of an
\* element is the element); arrays are functions over 0 .. size - 1
\* --------------------------------------------------------------------------

\* longest array given to radix_sort
MaxLen == 3

\* constexpr auto group_length = static_cast<size_t>(1) << 3
group_length == 8

\* constexpr auto counter_size = static_cast<size_t>(1 << group_length)
counter_size == 2 ^ group_length

\* sizeof(KeyType) of the instantiations of the model: unsigned char,
\* unsigned short, unsigned int
KeySizes == {1, 2, 4}

\* constexpr auto group_pass = bits_length / group_length, bits_length = sizeof(KeyType) << 3
group_pass(key_size) == (key_size * 8) \div group_length

\* the keys of the model; all of them are below 2^32
ModelKeys == {0, 1, 255, 256, 65536, 16777216}

\* the keys of the model that a KeyType of key_size bytes can hold
RadixKeys(key_size) ==
    IF key_size >= 4 THEN ModelKeys
    ELSE { k \in ModelKeys : k < 2 ^ (8 * key_size) }

\* static_cast<KeyType>((key & mask) >> low_bit), where mask is
\* (1 << group_length) - 1 shifted left by low_bit
radix_index(key, low_bit) == (key \div (2 ^ low_bit)) % counter_size

\* element_counter after the first loop of a pass
element_counter(in, low_bit) ==
    [index \in 0 .. counter_size - 1 |->
        Cardinality({ element \in DOMAIN in : radix_index(in[element], low_bit) = index })]

\* element_sum after the second loop of a pass: element_sum[index] is the sum
\* of element_counter[0 .. index - 1]
element_sum(counter) ==
    LET used == { j \in 0 .. counter_size - 1 : counter[j] # 0 }
        RECURSIVE total(_)
        total(S) == IF S = {} THEN 0
                    ELSE LET j == CHOOSE x \in S : TRUE
                         IN  counter[j] + total(S \ {j})
    IN  [index \in 0 .. counter_size - 1 |-> total({ j \in used : j < index })]

\* [out, sum] after the third loop of a pass has placed in[0 .. element - 1]
RECURSIVE scatter(_, _, _, _, _)
scatter(in, low_bit, out, sum, element) ==
    IF element = 0 THEN [out |-> out, sum |-> sum]
    ELSE LET before == scatter(in, low_bit, out, sum, element - 1)
             index == radix_index(in[element - 1], low_bit)
         IN  [out |-> [before.out EXCEPT ![before.sum[index]] = in[element - 1]],
              sum |-> [before.sum EXCEPT ![index] = before.sum[index] + 1]]

\* the buffers [begin, pool, in, out] after i passes; in and out name the
\* buffer the pointer of that name points to
RECURSIVE radix_passes(_, _)
radix_passes(st, i) ==
    IF i = 0 THEN st
    ELSE LET b == radix_passes(st, i - 1)
             low_bit == (i - 1) * group_length
             src == IF b.in = "begin" THEN b.begin ELSE b.pool
             dst == IF b.out = "begin" THEN b.begin ELSE b.pool
             sum == element_sum(element_counter(src, low_bit))
             res == scatter(src, low_bit, dst, sum, Cardinality(DOMAIN src)).out
         IN  [begin |-> IF b.out = "begin" THEN res ELSE b.begin,
              pool |-> IF b.out = "pool" THEN res ELSE b.pool,
              in |-> b.out, out |-> b.in]

\* "if (out == pool) std::memcpy(begin, pool, sizeof(T) * size)"
copy_back(st) == IF st.out = "pool" THEN st.pool ELSE st.begin

\* the array [begin, end) after radix_sort; the malloc'ed pool starts with
\* contents that are never read before they are written
radix_sort(array, key_size) ==
    copy_back(radix_passes([begin |-> array, pool |-> [i \in DOMAIN array |-> 0],
                            in |-> "begin", out |-> "pool"],
                           group_pass(key_size)))

\* --------------------------------------------------------------------------
\* Initial state and actions
\* --------------------------------------------------------------------------

InitBvh ==
    /\ phase = "idle"
    /\ ndebug = FALSE
    /\ arena = 0
    /\ oob_read = FALSE
    /\ mode = "surface_area_heuristic"
    /\ max_elements_per_node = default_max_elements_per_node
    /\ in_bounds = << >>
    /\ in_elements = << >>
    /\ infos = << >>
    /\ pool = << >>
    /\ count = 0
    /\ max_count = 0
    /\ root = NULL
    /\ elements_pool = << >>
    /\ stack = << >>
    /\ node_range = << >>
    /\ split_calls = 0
    /\ query = << >>
    /\ contacts = << >>

\* nobody has called enumerate_contacts
InitReaders ==
    readers = [r \in Readers |->
                 [pc |-> "idle", bound |-> << >>, todo |-> << >>, contacts |-> << >>]]

\* no stack_allocator exists
InitStackIdle ==
    /\ sa_phase = "idle"
    /\ sa_ndebug = FALSE
    /\ mExpandFactor = 0
    /\ mMemorySpace = 0
    /\ mMemorySize = 0
    /\ mElements = << >>
    /\ sa_created = 0
    /\ sa_last = no_call
    /\ sa_prev = no_call

\* split() has not been called
InitSplitIdle ==
    /\ sp_phase = "idle"
    /\ sp_mode = "surface_area_heuristic"
    /\ sp_max_elements = default_max_elements_per_node
    /\ sp_infos = << >>
    /\ sp_start = 0
    /\ sp_end = 0
    /\ sp_result = [infos |-> << >>, mid |-> 0]

InitRadixIdle ==
    /\ rs_phase = "idle"
    /\ rs_key_size = 1
    /\ rs_input = << >>
    /\ rs_array = << >>

Init == InitBvh /\ InitRadixIdle /\ InitReaders /\ InitStackIdle /\ InitSplitIdle

\* the caller sets max_elements_per_node and constructs the accelerator over
\* n volumes and n distinct element pointers; the constructor runs up to its
\* call of recursive_build.  The parameters are what the caller chooses from.
\* builds is how assert() may be compiled (the values of ndebug).
ConstructWith(sizes, modes, thresholds, volumes, builds) ==
    /\ phase = "idle"
    /\ ndebug' \in builds
    /\ \E n \in sizes, m \in modes, mepn \in thresholds :
         \E bounds \in [1 .. n -> volumes] :
           LET elements == [i \in 1 .. n |-> i]
               size == std_min(Len(bounds), Len(elements))
               cap == allocator_capacity(Len(bounds), Len(elements))
           IN  /\ mode' = m
               /\ max_elements_per_node' = mepn
               /\ in_bounds' = bounds
               /\ in_elements' = elements
               /\ max_count' = cap
               /\ count' = 0
               /\ pool' = [i \in 0 .. cap - 1 |-> bvh_node_default]
               /\ arena' = arena + 1
               /\ node_range' = [i \in 0 .. cap - 1 |-> << 0, 0 >>]
               /\ infos' = [i \in 0 .. size - 1 |->
                              [bound |-> bounds[i + 1], element |-> elements[i + 1]]]
               /\ stack' = << call_frame(0, size) >>
               /\ phase' = "building"
    /\ UNCHANGED << oob_read, root, elements_pool, split_calls, query, contacts >>
    /\ UNCHANGED << radix_vars, reader_vars, stack_vars, split_vars >>

\* the use the interface is made for: at least one element, a mode of the
\* enumeration; for such input assert(count < max_count) is the only place
\* where NDEBUG matters, and the build is taken with assertions
Construct == ConstructWith(1 .. MaxN, bvh_build_mode, MaxElementsChoices, Boxes, {FALSE})

\* the node becomes a leaf over [f.start, f.end) and the activation returns
EmitLeaf(f, nd, bounds, leaf_count) ==
    /\ pool' = [pool EXCEPT ![nd] = leaf(bounds, Len(elements_pool), leaf_count)]
    /\ elements_pool' = elements_pool \o pushed_elements(infos', f.start, f.end)
    /\ stack' = [stack EXCEPT ![Len(stack)] = [f EXCEPT !.pc = "return", !.node = nd]]

\* what a read of an element outside infos may find in place of a bound
UninitialisedBounds == { bound2_default, box(0, 0, 32, 2) }

\* recursive_build(infos, start, end) with infos[start] outside infos (the
\* range is empty: start = end = infos.size()).  The read is undefined: the
\* process takes a memory fault, or some bound is read; in the second case
\* no loop runs, end - start is not 1, the centroid bound is one point, and
\* a leaf of count 0 is written through the pointer allocate() returned,
\* which points behind the arena.
OutOfBoundsRead(f) ==
    /\ oob_read' = TRUE
    /\ \E fault \in BOOLEAN, bounds \in UninitialisedBounds :
         IF fault
         THEN /\ phase' = "crashed"
              /\ UNCHANGED << pool, count, node_range, elements_pool, stack >>
         ELSE LET nd == count
              IN  /\ phase' = phase
                  /\ count' = count + 1
                  /\ pool' = [i \in DOMAIN pool \cup {nd} |->
                                IF i = nd THEN leaf(bounds, Len(elements_pool), f.end - f.start)
                                ELSE pool[i]]
                  /\ node_range' = [i \in DOMAIN node_range \cup {nd} |->
                                      IF i = nd THEN << f.start, f.end >> ELSE node_range[i]]
                  /\ elements_pool' = elements_pool
                  /\ stack' = [stack EXCEPT ![Len(stack)] =
                                 [f EXCEPT !.pc = "return", !.node = nd]]
    /\ UNCHANGED << ndebug, arena, mode, max_elements_per_node, in_bounds, in_elements,
                    infos, max_count, root, split_calls, query, contacts >>

\* the default branch of the switch of split()
split_throws(m) == m \notin bvh_build_mode

\* one activation of recursive_build, from its entry to its return (leaf), to
\* its first recursive call, or to the point where it cannot go on
RecursiveBuildCall ==
    /\ phase = "building"
    /\ stack # << >>
    /\ stack[Len(stack)].pc = "call"
    /\ LET f == stack[Len(stack)] IN
       IF ~ ndebug /\ ~ allocate_allowed(count, max_count)
       THEN /\ phase' = "aborted"
            /\ UNCHANGED << ndebug, arena, oob_read, mode, max_elements_per_node, in_bounds,
                            in_elements, infos, pool, count, max_count, root,
                            elements_pool, stack, node_range, split_calls, query,
                            contacts >>
       ELSE IF f.start \notin DOMAIN infos
       THEN OutOfBoundsRead(f)
       ELSE \E nd \in {count}, bounds \in {range_bounds(infos, f.start, f.end)},
               centroid_bound \in {range_centroid_bound(infos, f.start, f.end)} :
            \E dim \in {max_dimension(centroid_bound)} :
                /\ count' = count + 1
                /\ node_range' = [node_range EXCEPT ![nd] = << f.start, f.end >>]
                /\ IF f.end - f.start = 1
                   THEN /\ infos' = infos
                        /\ split_calls' = split_calls
                        /\ phase' = phase
                        /\ EmitLeaf(f, nd, bounds, 1)
                   ELSE IF same_centroid(centroid_bound, dim)
                   THEN /\ infos' = infos
                        /\ split_calls' = split_calls
                        /\ phase' = phase
                        /\ EmitLeaf(f, nd, bounds, f.end - f.start)
                   ELSE IF split_throws(mode)
                   THEN /\ split_calls' = split_calls + 1
                        /\ phase' = "thrown"
                        /\ UNCHANGED << infos, pool, elements_pool, stack >>
                   ELSE /\ split_calls' = split_calls + 1
                        /\ phase' = phase
                        /\ \E o \in split(mode, infos, centroid_bound, bounds, dim,
                                          f.start, f.end, max_elements_per_node) :
                             /\ infos' = o.infos
                             /\ IF o.mid = f.start \/ o.mid = f.end
                                THEN EmitLeaf(f, nd, bounds, f.end - f.start)
                                ELSE \E ord \in evaluation_orders :
                                       LET g == [f EXCEPT !.pc = "first", !.node = nd,
                                                          !.dim = dim, !.mid = o.mid,
                                                          !.order = ord]
                                       IN  /\ stack' = [stack EXCEPT ![Len(stack)] = g]
                                                           \o << first_child(g) >>
                                           /\ pool' = pool
                                           /\ elements_pool' = elements_pool
                /\ UNCHANGED << ndebug, arena, oob_read, mode, max_elements_per_node, in_bounds,
                                in_elements, max_count, root, query, contacts >>
    /\ UNCHANGED << radix_vars, reader_vars, stack_vars, split_vars >>

\* an activation of recursive_build returns its node: to the constructor, which
\* stores it in root, or to the activation that called it, which makes its
\* second call or builds its internal node from the two results
RecursiveBuildReturn ==
    /\ phase = "building"
    /\ stack # << >>
    /\ stack[Len(stack)].pc = "return"
    /\ LET f == stack[Len(stack)]
           rest == SubSeq(stack, 1, Len(stack) - 1)
       IN  IF rest = << >>
           THEN /\ root' = f.node
                /\ phase' = "built"
                /\ stack' = << >>
                /\ pool' = pool
           ELSE LET parent == rest[Len(rest)]
                    got == IF (parent.pc = "first") = (parent.order = "left_first")
                           THEN [parent EXCEPT !.left = f.node]
                           ELSE [parent EXCEPT !.right = f.node]
                IN  /\ root' = root
                    /\ phase' = phase
                    /\ IF parent.pc = "first"
                       THEN /\ stack' = [rest EXCEPT ![Len(rest)] = [got EXCEPT !.pc = "second"]]
                                           \o << second_child(got) >>
                            /\ pool' = pool
                       ELSE /\ stack' = [rest EXCEPT ![Len(rest)] = [got EXCEPT !.pc = "return"]]
                            /\ pool' = [pool EXCEPT ![got.node] =
                                           node(pool, got.dim, got.left, got.right)]
    /\ UNCHANGED << ndebug, arena, oob_read, mode, max_elements_per_node, in_bounds, in_elements,
                    infos, count, max_count, elements_pool, node_range, split_calls,
                    query, contacts >>
    /\ UNCHANGED << radix_vars, reader_vars, stack_vars, split_vars >>

\* enumerate_contacts(bound) on the constructed accelerator
EnumerateContacts ==
    /\ phase = "built"
    /\ \E bound \in Queries :
         /\ query' = << bound >>
         /\ contacts' = recursive_enumerate_contacts(pool, root, bound, << >>)
    /\ UNCHANGED << phase, ndebug, arena, oob_read, mode, max_elements_per_node, in_bounds,
                    in_elements, infos, pool, count, max_count, root, elements_pool,
                    stack, node_range, split_calls >>
    /\ UNCHANGED << radix_vars, reader_vars, stack_vars, split_vars >>

\* the index goes out of scope.  bvh_accelerator and bvh_allocator declare
\* no destructor: the implicit one destroys elements_pool and the members of
\* the allocator, a pointer and two counters; bvh_allocator::free() has no
\* caller
Destroy ==
    /\ phase = "built"
    /\ phase' = "destroyed"
    /\ elements_pool' = << >>
    /\ UNCHANGED << ndebug, arena, oob_read, mode, max_elements_per_node, in_bounds,
                    in_elements, infos, pool, count, max_count, root, stack, node_range,
                    split_calls, query, contacts >>
    /\ UNCHANGED << radix_vars, reader_vars, stack_vars, split_vars >>

Next ==
    \/ Construct
    \/ RecursiveBuildCall
    \/ RecursiveBuildReturn
    \/ EnumerateContacts

Spec == Init /\ [][Next]_vars

\* the constructor alone: from the call of the constructor to its return
NextConstructor ==
    \/ Construct
    \/ RecursiveBuildCall
    \/ RecursiveBuildReturn

SpecConstructor == Init /\ [][NextConstructor]_vars

\* split() is a function of infos, the range and the two settings: its
\* specification starts where recursive_build calls it.  recursive_build
\* calls it for a range of at least two elements inside infos whose centroids
\* are not all equal on the axis it chose, with the centroid bound, the bounds
\* and the axis it computed from that range.
MaxRange == 3

\* two volumes whose centroids (65536, 1) and (65538, 1) are neighbouring
\* floats; their coordinates and the sums min + max are floats themselves
LargeBoxes == { box(65532, 0, 65540, 2), box(65534, 0, 65542, 2) }

\* three small volumes spread along x: two of them far below the x axis,
\* the third one across it
FarBoxes == { box(0, -100, 2, -98), box(200, -100, 202, -98), box(300, -2, 302, 2) }

InitSplit ==
    /\ InitBvh
    /\ InitReaders
    /\ InitRadixIdle
    /\ InitStackIdle
    /\ sp_phase = "called"
    /\ sp_mode \in bvh_build_mode
    /\ sp_max_elements \in MaxElementsChoices
    /\ \E n \in 2 .. MaxRange :
         /\ \E bounds \in [0 .. n - 1 -> Boxes] \cup [0 .. n - 1 -> LargeBoxes]
                             \cup [0 .. n - 1 -> FarBoxes] :
               sp_infos = [i \in 0 .. n - 1 |-> [bound |-> bounds[i], element |-> i + 1]]
         /\ sp_start \in 0 .. n - 2
         /\ sp_end \in sp_start + 2 .. n
    /\ LET centroid_bound == range_centroid_bound(sp_infos, sp_start, sp_end)
       IN  ~ same_centroid(centroid_bound, max_dimension(centroid_bound))
    /\ sp_result = [infos |-> << >>, mid |-> 0]

\* auto mid = split(infos, centroid_bound, bounds, dim, start, end)
SplitCall ==
    /\ sp_phase = "called"
    /\ LET centroid_bound == range_centroid_bound(sp_infos, sp_start, sp_end)
           bounds == range_bounds(sp_infos, sp_start, sp_end)
           dim == max_dimension(centroid_bound)
       IN  sp_result' \in split(sp_mode, sp_infos, centroid_bound, bounds, dim,
                                sp_start, sp_end, sp_max_elements)
    /\ sp_phase' = "returned"
    /\ UNCHANGED << sp_mode, sp_max_elements, sp_infos, sp_start, sp_end >>
    /\ UNCHANGED << bvh_vars, radix_vars, reader_vars, stack_vars >>

NextSplit == SplitCall

SpecSplit == InitSplit /\ [][NextSplit]_vars

\* stack_allocator<T> a(space, factor), in a build with or without assertions
InitStack ==
    /\ InitBvh
    /\ InitReaders
    /\ InitRadixIdle
    /\ InitSplitIdle
    /\ sa_phase = "ready"
    /\ sa_ndebug \in BOOLEAN
    /\ mExpandFactor \in StackFactors
    /\ mMemorySpace \in StackSpaces
    /\ mMemorySize = 0
    /\ mElements = << >>
    /\ sa_created = 0
    /\ sa_last = no_call
    /\ sa_prev = no_call

\* allocate(count)
StackAllocate ==
    /\ sa_phase = "ready"
    /\ \E cnt \in 0 .. MaxCount :
         /\ sa_created + cnt <= MaxCreated
         /\ LET space_need == mMemorySize + cnt
                space == expanded_space(mMemorySpace, mExpandFactor, space_need)
                call == [op |-> "allocate", count |-> cnt, size_before |-> mMemorySize,
                         created |-> << >>, destroyed |-> << >>]
            IN  /\ sa_prev' = sa_last
                /\ mMemorySpace' = space
                /\ IF ~ enough_space(mMemorySpace, space_need)
                      /\ expand_hangs(mMemorySpace, space_need)
                   THEN /\ sa_phase' = "hung"
                        /\ sa_last' = call
                        /\ UNCHANGED << mMemorySize, mElements, sa_created >>
                   ELSE IF ~ enough_space(mMemorySpace, space_need)
                           /\ ~ sa_ndebug /\ ~ (space > space_need)
                   THEN /\ sa_phase' = "aborted"
                        /\ sa_last' = call
                        /\ UNCHANGED << mMemorySize, mElements, sa_created >>
                   ELSE /\ sa_phase' \in (IF space_need > space THEN Undefined ELSE {"ready"})
                        /\ mElements' = [i \in 0 .. space_need - 1 |->
                                            IF i < mMemorySize THEN mElements[i]
                                            ELSE sa_created + (i - mMemorySize) + 1]
                        /\ mMemorySize' = mMemorySize + cnt
                        /\ sa_created' = sa_created + cnt
                        /\ sa_last' = [call EXCEPT !.created =
                                          [i \in 1 .. cnt |-> sa_created + i]]
    /\ UNCHANGED << sa_ndebug, mExpandFactor >>
    /\ UNCHANGED << bvh_vars, radix_vars, reader_vars, split_vars >>

\* construct(args...): "expand_if_not_enough(++base::mMemorySize)", then the
\* element is constructed in slot size - 1.  When the block is replaced,
\* std::move reads mMemorySize elements, the count already incremented, from
\* the old block: one slot more than were constructed, and one slot behind
\* the old block when that block was full
StackConstruct ==
    /\ sa_phase = "ready"
    /\ sa_created + 1 <= MaxCreated
    /\ LET space_need == mMemorySize + 1
           space == expanded_space(mMemorySpace, mExpandFactor, space_need)
           call == [op |-> "construct", count |-> 1, size_before |-> mMemorySize,
                    created |-> << >>, destroyed |-> << >>]
       IN  /\ sa_prev' = sa_last
           /\ mMemorySpace' = space
           /\ mMemorySize' = space_need
           /\ IF ~ enough_space(mMemorySpace, space_need)
                 /\ expand_hangs(mMemorySpace, space_need)
              THEN /\ sa_phase' = "hung"
                   /\ sa_last' = call
                   /\ UNCHANGED << mElements, sa_created >>
              ELSE IF ~ enough_space(mMemorySpace, space_need)
                      /\ ~ sa_ndebug /\ ~ (space > space_need)
              THEN /\ sa_phase' = "aborted"
                   /\ sa_last' = call
                   /\ UNCHANGED << mElements, sa_created >>
              ELSE /\ sa_phase' \in (IF space_need > space THEN Undefined
                                     ELSE IF ~ enough_space(mMemorySpace, space_need)
                                             /\ space_need > mMemorySpace
                                     THEN Undefined \cup {"ready"}
                                     ELSE {"ready"})
                   /\ mElements' = [i \in 0 .. space_need - 1 |->
                                       IF i < mMemorySize THEN mElements[i]
                                       ELSE sa_created + 1]
                   /\ sa_created' = sa_created + 1
                   /\ sa_last' = [call EXCEPT !.created = << sa_created + 1 >>]
    /\ UNCHANGED << sa_ndebug, mExpandFactor >>
    /\ UNCHANGED << bvh_vars, radix_vars, reader_vars, split_vars >>

\* deallocate(count)
StackDeallocate ==
    /\ sa_phase = "ready"
    /\ \E cnt \in 0 .. MaxCount :
         LET call == [op |-> "deallocate", count |-> cnt, size_before |-> mMemorySize,
                      created |-> << >>, destroyed |-> << >>]
         IN  /\ sa_prev' = sa_last
             /\ IF ~ sa_ndebug /\ ~ (mMemorySize >= cnt)
                THEN /\ sa_phase' = "aborted"
                     /\ sa_last' = call
                     /\ UNCHANGED << mMemorySize, mElements >>
                ELSE IF ~ (mMemorySize >= cnt)
                THEN /\ sa_phase' \in Undefined
                     /\ sa_last' = [call EXCEPT !.destroyed =
                                       destroyed_elements(mElements, mMemorySize, mMemorySize)]
                     /\ mMemorySize' = (mMemorySize - cnt) % SIZE_MODULUS
                     /\ mElements' = << >>
                ELSE /\ sa_phase' = "ready"
                     /\ sa_last' = [call EXCEPT !.destroyed =
                                       destroyed_elements(mElements, mMemorySize, cnt)]
                     /\ mMemorySize' = mMemorySize - cnt
                     /\ mElements' = [i \in 0 .. mMemorySize - cnt - 1 |-> mElements[i]]
    /\ UNCHANGED << sa_ndebug, mExpandFactor, mMemorySpace, sa_created >>
    /\ UNCHANGED << bvh_vars, radix_vars, reader_vars, split_vars >>

NextStack ==
    \/ StackAllocate
    \/ StackConstruct
    \/ StackDeallocate

SpecStack == InitStack /\ [][NextStack]_vars

\* the constructor used outside its precondition: no element at all, or a
\* mode that is no enumerator of bvh_build_mode, in a build with or without
\* assertions
MaxMisuseN == 2

invalid_build_modes == {"invalid"}

ConstructMisuse ==
    ConstructWith(0 .. MaxMisuseN, bvh_build_mode \cup invalid_build_modes,
                  {default_max_elements_per_node}, Boxes, BOOLEAN)

NextMisuse ==
    \/ ConstructMisuse
    \/ RecursiveBuildCall
    \/ RecursiveBuildReturn
    \/ EnumerateContacts

SpecMisuse == Init /\ [][NextMisuse]_vars

\* the constructions of the specification with concurrent callers
MaxReadN == 2

ReaderBoxes == { box(-4, -8, -4, 0), box(0, 0, 32, 2), box(0, 0, 30, 2) }

ReaderQueries == { box(0, 0, 2, 2), box(-4, -4, -2, -2) }

ConstructForReaders ==
    ConstructWith(1 .. MaxReadN, bvh_build_mode, {default_max_elements_per_node},
                  ReaderBoxes, {FALSE})

\* a caller enters enumerate_contacts(bound): an empty local vector and the
\* call recursive_enumerate_contacts(root, bound, contacts)
ReaderCall ==
    /\ phase = "built"
    /\ \E r \in Readers, bound \in ReaderQueries :
         /\ readers[r].pc # "running"
         /\ readers' = [readers EXCEPT ![r] =
                           [pc |-> "running", bound |-> bound,
                            todo |-> << root >>, contacts |-> << >>]]
    /\ UNCHANGED << bvh_vars, radix_vars, stack_vars, split_vars >>

\* the next activation of recursive_enumerate_contacts of some caller
ReaderStep ==
    /\ phase = "built"
    /\ \E r \in Readers :
         /\ readers[r].pc = "running"
         /\ readers[r].todo # << >>
         /\ readers' = reader_step(readers, r, pool)
    /\ UNCHANGED << bvh_vars, radix_vars, stack_vars, split_vars >>

\* enumerate_contacts of some caller returns its vector
ReaderReturn ==
    /\ phase = "built"
    /\ \E r \in Readers :
         /\ readers[r].pc = "running"
         /\ readers[r].todo = << >>
         /\ readers' = [readers EXCEPT ![r].pc = "returned"]
    /\ UNCHANGED << bvh_vars, radix_vars, stack_vars, split_vars >>

NextReaders ==
    \/ ConstructForReaders
    \/ RecursiveBuildCall
    \/ RecursiveBuildReturn
    \/ ReaderCall
    \/ ReaderStep
    \/ ReaderReturn

SpecReaders == Init /\ [][NextReaders]_vars

\* the construction alone, run to its end: recursive_build is sequential
\* code, every activation that can take a step takes it
MaxBuildN == 3

ConstructForBuild ==
    ConstructWith(1 .. MaxBuildN, bvh_build_mode, MaxElementsChoices, ReaderBoxes, {FALSE})

NextBuild ==
    \/ ConstructForBuild
    \/ RecursiveBuildCall
    \/ RecursiveBuildReturn

SpecBuild ==
    /\ Init
    /\ [][NextBuild]_vars
    /\ WF_vars(RecursiveBuildCall)
    /\ WF_vars(RecursiveBuildReturn)

\* the life of an index: construction, queries, destruction
NextLifecycle ==
    \/ ConstructForReaders
    \/ RecursiveBuildCall
    \/ RecursiveBuildReturn
    \/ EnumerateContacts
    \/ Destroy

SpecLifecycle == Init /\ [][NextLifecycle]_vars

\* radix_sort is a pure function: its specification starts with an array the
\* caller may pass and applies it
InitRadix ==
    /\ InitBvh
    /\ InitReaders
    /\ InitStackIdle
    /\ InitSplitIdle
    /\ rs_phase = "input"
    /\ rs_key_size \in KeySizes
    /\ \E n \in 0 .. MaxLen : rs_input \in [0 .. n - 1 -> RadixKeys(rs_key_size)]
    /\ rs_array = rs_input

RadixSort ==
    /\ rs_phase = "input"
    /\ rs_array' = radix_sort(rs_array, rs_key_size)
    /\ rs_phase' = "sorted"
    /\ UNCHANGED << rs_key_size, rs_input >>
    /\ UNCHANGED << bvh_vars, reader_vars, stack_vars, split_vars >>

NextRadix == RadixSort

SpecRadix == InitRadix /\ [][NextRadix]_vars

\* --------------------------------------------------------------------------
\* Views of the constructed index used by the properties
\* --------------------------------------------------------------------------

Built == phase = "built"

\* N, the number of (bound, element) pairs given to the constructor
InputSize == Len(in_elements)

\* the nodes handed out by allocate()
Allocated == 0 .. count - 1

LeafNodes == { n \in Allocated : pool[n].left = NULL /\ pool[n].right = NULL }

InternalNodes == Allocated \ LeafNodes

\* positions (of the code, from 0) of the reordering buffer a leaf describes
LeafSlice(n) == pool[n].offset .. pool[n].offset + pool[n].count - 1

\* the leaves below a node
RECURSIVE LeavesBelow(_)
LeavesBelow(n) ==
    IF pool[n].left = NULL /\ pool[n].right = NULL THEN {n}
    ELSE LeavesBelow(pool[n].left) \cup LeavesBelow(pool[n].right)

\* the input indices (1 .. N) of the elements stored in the leaves below a node
InputsBelow(n) ==
    LET leaves == LeavesBelow(n)
    IN  { i \in 1 .. InputSize :
            \E l \in leaves : \E p \in LeafSlice(l) :
                p + 1 \in DOMAIN elements_pool /\ elements_pool[p + 1] = in_elements[i] }

\* position (from 0) of the input element i in the reordering buffer
Positions(i) == { p \in 0 .. Len(elements_pool) - 1 : elements_pool[p + 1] = in_elements[i] }

\* the smallest volume that contains every volume of a non-empty set
Least(S) == CHOOSE x \in S : \A y \in S : x <= y

Greatest(S) == CHOOSE x \in S : \A y \in S : y <= x

MergeOf(S) ==
    LET volumes == S
    IN  [min |-> << Least({b.min[1] : b \in volumes}), Least({b.min[2] : b \in volumes}) >>,
         max |-> << Greatest({b.max[1] : b \in volumes}),
                    Greatest({b.max[2] : b \in volumes}) >>]

\* two closed boxes share a point
Overlap(a, b) ==
    /\ a.min[1] <= b.max[1] /\ b.min[1] <= a.max[1]
    /\ a.min[2] <= b.max[2] /\ b.min[2] <= a.max[2]

\* the doubled centroid of an input volume, per axis
Centroid2(b) == << b.min[1] + b.max[1], b.min[2] + b.max[2] >>

ContactSet == { contacts[k] : k \in DOMAIN contacts }

\* the nodes reachable from a node through the child links
RECURSIVE NodesBelow(_)
NodesBelow(n) ==
    IF pool[n].left = NULL /\ pool[n].right = NULL THEN {n}
    ELSE {n} \cup (IF pool[n].left = NULL THEN {} ELSE NodesBelow(pool[n].left))
             \cup (IF pool[n].right = NULL THEN {} ELSE NodesBelow(pool[n].right))

TreeNodes == NodesBelow(root)

TreeLeaves == { n \in TreeNodes : pool[n].left = NULL /\ pool[n].right = NULL }

\* the doubled centroids of the input volumes of the elements of a leaf
LeafCentroids(l) == { Centroid2(in_bounds[i]) : i \in InputsBelow(l) }

\* extent of a set of points on an axis (1 or 2)
Extent(C, a) == Greatest({ c[a] : c \in C }) - Least({ c[a] : c \in C })

\* the split axis chosen for a set of centroids: x only if its extent is larger
ChosenAxis(C) == IF Extent(C, 1) > Extent(C, 2) THEN 1 ELSE 2

AllCentroidsEqual == \A i, j \in 1 .. InputSize : Centroid2(in_bounds[i]) = Centroid2(in_bounds[j])

\* --------------------------------------------------------------------------
\* Properties
\* --------------------------------------------------------------------------

\* C1  Partition completeness: after construction, in every mode, the
\* reordering buffer has length N and every input element handle occurs in
\* it exactly once.
PartitionCompleteness ==
    Built =>
        /\ Len(elements_pool) = InputSize
        /\ \A i \in 1 .. InputSize : Cardinality(Positions(i)) = 1

\* a constructed index over three elements whose buffer is not in input order
PartitionCompletenessWitness ==
    /\ Built
    /\ InputSize >= 3
    /\ count >= 3
    /\ elements_pool # in_elements

LeafTiling ==
    Built =>
        LET leaves == LeafNodes
        IN  /\ \A l \in leaves : pool[l].count >= 1
            /\ \A l, k \in leaves : l # k => LeafSlice(l) \cap LeafSlice(k) = {}
            /\ UNION { LeafSlice(l) : l \in leaves } = 0 .. InputSize - 1
            /\ \A l \in leaves :
                  /\ pool[l].count = node_range[l][2] - node_range[l][1]
                  /\ \A k \in 0 .. pool[l].count - 1 :
                        elements_pool[pool[l].offset + k + 1]
                            = infos[node_range[l][1] + k].element

\* a constructed index with a leaf of several elements that does not start
\* the buffer and was built over a different range of infos than its slice
LeafTilingWitness ==
    /\ Built
    /\ \E l \in LeafNodes :
          /\ pool[l].count >= 2
          /\ pool[l].offset > 0
          /\ pool[l].offset # node_range[l][1]

\* C4  Bound soundness: the stored bound of every node equals the merge of
\* the input volumes of the elements in the leaves below it.
BoundSoundness ==
    Built =>
        \A n \in Allocated :
            LET below == InputsBelow(n)
            IN  /\ below # {}
                /\ pool[n].bound = MergeOf({ in_bounds[i] : i \in below })

\* an internal node over volumes none of which is the node's bound, one of
\* them left of the origin
BoundSoundnessWitness ==
    /\ Built
    /\ \E n \in InternalNodes :
          /\ \A i \in InputsBelow(n) : in_bounds[i] # pool[n].bound
          /\ \E i \in InputsBelow(n) : in_bounds[i].max[1] < 0

\* C5  Arena sufficiency: the assertion of allocate() never fails and the
\* build allocates at most 2N - 1 nodes.
ArenaSufficiency ==
    /\ phase # "aborted"
    /\ phase # "idle" => count <= 2 * InputSize - 1

\* a build that used all 2N - 1 nodes, N = 3
ArenaSufficiencyWitness ==
    /\ Built
    /\ InputSize = 3
    /\ count = 2 * InputSize - 1

StrictBinaryTree ==
    Built =>
        LET nodes == TreeNodes
            leaves == { n \in nodes : pool[n].left = NULL /\ pool[n].right = NULL }
        IN  /\ \A n \in nodes :
                  \/ pool[n].left = NULL /\ pool[n].right = NULL
                  \/ pool[n].left # NULL /\ pool[n].right # NULL
            /\ Cardinality(nodes \ leaves) = Cardinality(leaves) - 1
            /\ Cardinality(leaves) <= InputSize
            /\ nodes = Allocated

\* a tree with an internal node and fewer leaves than elements
StrictBinaryTreeWitness ==
    /\ Built
    /\ TreeNodes \ TreeLeaves # {}
    /\ Cardinality(TreeLeaves) < InputSize

\* C9  Leaf-size bound in SAH mode: a leaf with more than
\* max_elements_per_node elements exists only where the centroids of its
\* elements coincide on the split axis chosen for them.
LeafSizeBound ==
    (Built /\ mode = "surface_area_heuristic") =>
        \A l \in TreeLeaves :
            pool[l].count > max_elements_per_node =>
                LET C == LeafCentroids(l)
                IN  \A c, d \in C : c[ChosenAxis(C)] = d[ChosenAxis(C)]

\* max_elements_per_node = 1, surface_area_heuristic: three long overlapping
\* volumes for which one leaf costs no more than the cheapest split are split
\* all the same, and the two with the same centroid stay in one leaf
LeafSizeBoundWitness ==
    /\ Built
    /\ mode = "surface_area_heuristic"
    /\ max_elements_per_node = 1
    /\ in_bounds = << box(0, 0, 32, 2), box(0, 0, 30, 2), box(0, 0, 30, 2) >>
    /\ count = 3
    /\ \E l \in TreeLeaves : pool[l].count = 2

\* C10  Degenerate coincident input: N >= 2 volumes with one common centroid
\* give, in every mode, one leaf with offset 0 and count N, without any call
\* of split, and the reordering buffer is the input order.
DegenerateCoincident ==
    (Built /\ InputSize >= 2 /\ AllCentroidsEqual) =>
        /\ count = 1
        /\ pool[root].left = NULL /\ pool[root].right = NULL
        /\ pool[root].offset = 0
        /\ pool[root].count = InputSize
        /\ split_calls = 0
        /\ elements_pool = in_elements

\* three volumes, not all the same, with one common centroid
DegenerateCoincidentWitness ==
    /\ Built
    /\ InputSize = 3
    /\ AllCentroidsEqual
    /\ \E i, j \in 1 .. InputSize : in_bounds[i] # in_bounds[j]

\* C7  radix_sort correctness: after radix_sort the array is in ascending
\* order of the keys and is a permutation of the array it was called on,
\* for every key value of KeyType.
RadixSortCorrect ==
    rs_phase = "sorted" =>
        /\ DOMAIN rs_array = DOMAIN rs_input
        /\ \A i, j \in DOMAIN rs_array : i < j => rs_array[i] <= rs_array[j]
        /\ \A k \in RadixKeys(rs_key_size) :
              Cardinality({ i \in DOMAIN rs_array : rs_array[i] = k })
                  = Cardinality({ i \in DOMAIN rs_input : rs_input[i] = k })

\* C11  Single element input: for N = 1 the build allocates exactly one node,
\* the root, a leaf with offset 0 and count 1 whose bound is the input volume,
\* in every mode; no split is asked for and the buffer holds the one element.
SingleElement ==
    (Built /\ InputSize = 1) =>
        /\ count = 1
        /\ root = 0
        /\ TreeNodes = {root}
        /\ is_leaf(pool[root])
        /\ pool[root].offset = 0
        /\ pool[root].count = 1
        /\ pool[root].bound = in_bounds[1]
        /\ split_calls = 0
        /\ elements_pool = in_elements

\* an index constructed over one volume of zero width, left of the origin, in
\* the surface_area_heuristic mode
SingleElementWitness ==
    /\ Built
    /\ InputSize = 1
    /\ mode = "surface_area_heuristic"
    /\ in_bounds[1] = box(-4, -8, -4, 0)
    /\ count = 1

\* C12  Read-only concurrent queries: once the constructor has returned, no
\* step of any caller of enumerate_contacts changes the nodes, the arena
\* cursor, the root or the reordering buffer, and whatever the interleaving
\* of the callers, the vector a caller returns is the one enumerate_contacts
\* gives for its argument when it runs alone.
ReadOnlyQueries ==
    [][phase = "built" =>
         /\ UNCHANGED << pool, count, max_count, root, elements_pool, infos >>
         /\ \A r \in Readers :
               readers'[r].pc = "returned" =>
                   readers'[r].contacts
                       = recursive_enumerate_contacts(pool, root, readers'[r].bound, << >>)]_vars

\* one caller has returned a range while another caller, asking about
\* another volume, is in the middle of its traversal with another range
\* reported
ReadOnlyQueriesWitness ==
    /\ Built
    /\ \E r, q \in Readers :
          /\ readers[r].pc = "returned"
          /\ readers[r].contacts # << >>
          /\ readers[r].contacts # readers[q].contacts
          /\ readers[q].pc = "running"
          /\ readers[q].bound # readers[r].bound
          /\ readers[q].todo # << >>
          /\ readers[q].contacts # << >>

\* C13  Invalid build mode is fatal: for every input with N >= 1, a
\* construction with a mode that is no enumerator of bvh_build_mode never
\* gives a constructed index.
InvalidModeFatal ==
    (mode \in invalid_build_modes /\ InputSize >= 1) => phase # "built"

\* C14 as stated  Zero-length input is unguarded: a construction with N = 0
\* meets no check before infos is read, so whenever it stops, it has read
\* infos[0] of the empty array.
ZeroLengthReadsOutOfBounds ==
    (InputSize = 0 /\ phase \notin {"idle", "building"}) => oob_read

\* C14  Zero-length input: the constructor accepts N = 0 and calls
\* recursive_build(infos, 0, 0).  In a build with assertions the assertion
\* of allocate() (0 < 0) stops the process before infos is read and before a
\* node is handed out; in a build with NDEBUG recursive_build reads infos[0]
\* of the empty array.
ZeroLengthInput ==
    (InputSize = 0 /\ phase \notin {"idle", "building"}) =>
        IF ndebug
        THEN oob_read /\ phase \in {"crashed", "built"}
        ELSE phase = "aborted" /\ ~ oob_read /\ count = 0

\* a build with NDEBUG that was given no element, has read infos[0] and has
\* returned an index whose root is a leaf without elements
ZeroLengthInputWitness ==
    /\ InputSize = 0
    /\ ndebug
    /\ oob_read
    /\ phase = "built"
    /\ pool[root].count = 0

\* the elements of a sequence in the opposite order
Reversed(q) == [i \in 1 .. Len(q) |-> q[Len(q) + 1 - i]]

\* C15  stack_allocator round trip: allocate(n) returns having constructed
\* exactly n elements and with size() larger by n; a deallocate(n) that
\* follows it destroys exactly those n elements, the last constructed first,
\* and size() is again what it was before the allocate; a deallocate(count)
\* with size() < count does not go through.
StackRoundTrip ==
    /\ sa_last.op = "allocate" =>
          /\ sa_phase = "ready"
          /\ Len(sa_last.created) = sa_last.count
          /\ mMemorySize = sa_last.size_before + sa_last.count
    /\ (sa_last.op = "deallocate" /\ sa_prev.op = "allocate"
           /\ sa_last.count = sa_prev.count /\ sa_phase = "ready") =>
          /\ sa_last.destroyed = Reversed(sa_prev.created)
          /\ mMemorySize = sa_prev.size_before
    /\ (sa_last.op = "deallocate" /\ sa_last.size_before < sa_last.count) =>
          sa_phase # "ready"

\* C16  Left-before-right leaf order: for every internal node, every leaf
\* below its left child has a smaller offset than every leaf below its right
\* child, and enumerate_contacts returns its ranges in increasing offset
\* order.
LeftBeforeRight ==
    Built =>
        /\ \A n \in TreeNodes \ TreeLeaves :
              \A l \in LeavesBelow(pool[n].left), r \in LeavesBelow(pool[n].right) :
                  pool[l].offset < pool[r].offset
        /\ query # << >> =>
              \A j, k \in DOMAIN contacts : j < k => contacts[j][1] < contacts[k][1]

\* the call of split() as the properties see it
SplitReturned == sp_phase = "returned"

SplitSize == sp_end - sp_start

SplitRange == sp_start .. sp_end - 1

SplitCentroidBound == range_centroid_bound(sp_infos, sp_start, sp_end)

SplitBounds == range_bounds(sp_infos, sp_start, sp_end)

SplitDim == max_dimension(SplitCentroidBound)

\* centroid of an element-info record on the split axis, doubled
AxisCentroid2(info) == Centroid2(info.bound)[SplitDim + 1]

\* C17  SAH small-range short-circuit: a call of split_surface_area_heuristic
\* on a range of at most 4 elements returns what split_equal_counts returns
\* for the same arguments: the middle index of the range, with infos
\* arranged around it as std::nth_element arranges it.
SahSmallRange ==
    (SplitReturned /\ sp_mode = "surface_area_heuristic" /\ SplitSize <= 4) =>
        sp_result \in split_equal_counts(sp_infos, SplitCentroidBound, SplitBounds,
                                         SplitDim, sp_start, sp_end)

\* the buckets and the cheapest boundary of a call in SAH mode
SahBuckets == fill_buckets(sp_infos, SplitCentroidBound, SplitDim, sp_start, sp_end)

SahBest == min_cost_search(SahBuckets, SplitBounds, buckets_count - 2)

\* the bucket of an element-info record of the call
SahLocation(info) == bucket_location(info, SplitCentroidBound, SplitDim)

\* n < c for an element count n and a cost c = 1/8 + c.n / c.d
CountBelowCost(n, c) ==
    \/ c.k = "inf"
    \/ c.k = "fin" /\ 8 * n * c.d < c.d + 8 * c.n

\* c < n for a cost c = 1/8 + c.n / c.d and an element count n
CostBelowCount(c, n) == c.k = "fin" /\ c.d + 8 * c.n < 8 * n * c.d

\* split() returned start and left infos as it was
SplitKeptRange == sp_result = [infos |-> sp_infos, mid |-> sp_start]

\* split() partitioned the range by bucket membership at the boundary: the
\* range holds the same records, those of the buckets 0 .. location first,
\* and the index returned is the first record of a later bucket
SplitPartitionedAt(location) ==
    /\ DOMAIN sp_result.infos = DOMAIN sp_infos
    /\ \A i \in DOMAIN sp_infos \ SplitRange : sp_result.infos[i] = sp_infos[i]
    /\ { sp_result.infos[i] : i \in SplitRange } = { sp_infos[i] : i \in SplitRange }
    /\ sp_result.mid =
          sp_start + Cardinality({ i \in SplitRange : SahLocation(sp_infos[i]) <= location })
    /\ \A i \in SplitRange :
          SahLocation(sp_result.infos[i]) <= location <=> i < sp_result.mid

\* C18  SAH split-vs-leaf decision as stated: split_surface_area_heuristic
\* returns start exactly when the leaf cost end - start is lower than the
\* minimum boundary cost and the element count does not exceed
\* max_elements_per_node; in every other case it partitions the range at the
\* winning bucket boundary.
SahLeafWhenLower ==
    (SplitReturned /\ sp_mode = "surface_area_heuristic") =>
        LET best == SahBest
        IN  IF CountBelowCost(SplitSize, best.cost) /\ SplitSize <= sp_max_elements
            THEN SplitKeptRange
            ELSE SplitPartitionedAt(best.location)

\* C18  SAH split-vs-leaf decision as the code makes it:
\* split_surface_area_heuristic returns start exactly when the minimum
\* boundary cost is not lower than the leaf cost end - start (a cost equal
\* to the leaf cost, or one that is not a number, keeps the leaf) and the
\* element count does not exceed max_elements_per_node; in every other case
\* it partitions the range at the winning bucket boundary.
SahLeafDecision ==
    (SplitReturned /\ sp_mode = "surface_area_heuristic") =>
        LET best == SahBest
        IN  IF ~ CostBelowCount(best.cost, SplitSize) /\ SplitSize <= sp_max_elements
            THEN SplitKeptRange
            ELSE SplitPartitionedAt(best.location)

\* a call in SAH mode whose cheapest boundary costs exactly the leaf cost, on
\* a range the threshold allows as one leaf: split() returned start
SahLeafDecisionWitness ==
    /\ SplitReturned
    /\ sp_mode = "surface_area_heuristic"
    /\ SplitSize <= sp_max_elements
    /\ SahBest.cost.k = "fin"
    /\ SahBest.cost.d + 8 * SahBest.cost.n = 8 * SplitSize * SahBest.cost.d
    /\ SplitKeptRange

\* the exact union of the input volumes of the records at the indices in s
ExactUnion(s) ==
    LET i0 == CHOOSE i \in s : TRUE
        Lo(d) == CHOOSE x \in { sp_infos[i].bound.min[d] : i \in s } :
                    \A j \in s : x <= sp_infos[j].bound.min[d]
        Hi(d) == CHOOSE x \in { sp_infos[i].bound.max[d] : i \in s } :
                    \A j \in s : sp_infos[j].bound.max[d] <= x
    IN  [min |-> << Lo(1), Lo(2) >>, max |-> << Hi(1), Hi(2) >>]

\* C19  SAH merged bounds are exact unions: for every boundary k of the cost
\* evaluation the left merged bound is the union of the input volumes of the
\* elements binned into buckets 0 .. k and the right merged bound is the
\* union of those binned into buckets k + 1 .. 11, for all input volumes.
SahMergedBoundsExact ==
    (SplitReturned /\ sp_mode = "surface_area_heuristic") =>
        \A k \in 0 .. buckets_count - 2 :
            /\ merge_buckets(SahBuckets, 0, k + 1).bounds =
                  ExactUnion({ i \in SplitRange : SahLocation(sp_infos[i]) <= k })
            /\ merge_buckets(SahBuckets, k + 1, buckets_count).bounds =
                  ExactUnion({ i \in SplitRange : SahLocation(sp_infos[i]) > k })

\* C20  Equal-Counts split: split_equal_counts on a range of at least two
\* elements returns mid = start + floor((end - start) / 2) and keeps the
\* records of the range; afterwards every element of [start, mid) has a
\* centroid on the chosen axis <= that of infos[mid], which is <= that of
\* every element of [mid, end).
EqualCountsSplit ==
    (SplitReturned /\ sp_mode = "equal_counts") =>
        /\ sp_result.mid = sp_start + SplitSize \div 2
        /\ DOMAIN sp_result.infos = DOMAIN sp_infos
        /\ \A i \in DOMAIN sp_infos \ SplitRange : sp_result.infos[i] = sp_infos[i]
        /\ { sp_result.infos[i] : i \in SplitRange } = { sp_infos[i] : i \in SplitRange }
        /\ \A i \in sp_start .. sp_result.mid - 1 :
              AxisCentroid2(sp_result.infos[i]) <= AxisCentroid2(sp_result.infos[sp_result.mid])
        /\ \A i \in sp_result.mid .. sp_end - 1 :
              AxisCentroid2(sp_result.infos[sp_result.mid]) <= AxisCentroid2(sp_result.infos[i])

\* a call in equal-counts mode on a range of three elements whose median
\* was not in the middle: split_equal_counts moved it there
EqualCountsSplitWitness ==
    /\ SplitReturned
    /\ sp_mode = "equal_counts"
    /\ SplitSize = 3
    /\ sp_result.mid = sp_start + 1
    /\ sp_result.infos[sp_result.mid] # sp_infos[sp_result.mid]
    /\ AxisCentroid2(sp_result.infos[sp_start]) < AxisCentroid2(sp_result.infos[sp_start + 1])
    /\ AxisCentroid2(sp_result.infos[sp_start + 1]) < AxisCentroid2(sp_result.infos[sp_start + 2])

\* mid_position of split_middle, doubled
MidPosition2 ==
    float_add(min_property(SplitCentroidBound, SplitDim),
              max_property(SplitCentroidBound, SplitDim))

\* the indices of the range whose record has its centroid below mid_position
BelowMidPosition == { i \in SplitRange : AxisCentroid2(sp_infos[i]) < MidPosition2 }

\* split() kept the records of the range and touched nothing outside it
SplitPermutedRange ==
    /\ DOMAIN sp_result.infos = DOMAIN sp_infos
    /\ \A i \in DOMAIN sp_infos \ SplitRange : sp_result.infos[i] = sp_infos[i]
    /\ { sp_result.infos[i] : i \in SplitRange } = { sp_infos[i] : i \in SplitRange }

\* C21  Midpoint split: split_middle partitions [start, end) around
\* mid_position, the mean of the centroid bound's min and max on the chosen
\* axis: every element of [start, mid) has its centroid strictly below it and
\* every element of [mid, end) has it at or above; if that puts all elements
\* on one side, the result is the Equal-Counts result instead; the returned
\* index is always strictly inside (start, end).
MiddleSplit ==
    (SplitReturned /\ sp_mode = "middle") =>
        LET dim == SplitDim
            mid_position2 == MidPosition2
            before == [i \in SplitRange |-> Centroid2(sp_infos[i].bound)[dim + 1]]
            after == [i \in SplitRange |-> Centroid2(sp_result.infos[i].bound)[dim + 1]]
            below == { i \in SplitRange : before[i] < mid_position2 }
        IN  /\ SplitPermutedRange
            /\ sp_start < sp_result.mid /\ sp_result.mid < sp_end
            /\ IF below = {} \/ below = SplitRange
               THEN /\ sp_result.mid = sp_start + SplitSize \div 2
                    /\ \A i \in sp_start .. sp_result.mid - 1 :
                          after[i] <= after[sp_result.mid]
                    /\ \A i \in sp_result.mid .. sp_end - 1 :
                          after[sp_result.mid] <= after[i]
               ELSE /\ sp_result.mid = sp_start + Cardinality(below)
                    /\ \A i \in sp_start .. sp_result.mid - 1 : after[i] < mid_position2
                    /\ \A i \in sp_result.mid .. sp_end - 1 : after[i] >= mid_position2

\* a call in middle mode on three elements, two of them below mid_position
\* and not the first two: split_middle moved them to the front and returned
\* an index that is not the middle of the range
MiddleSplitWitness ==
    /\ SplitReturned
    /\ sp_mode = "middle"
    /\ SplitSize = 3
    /\ Cardinality(BelowMidPosition) = 2
    /\ sp_start + 2 \notin BelowMidPosition
    /\ sp_result.mid = sp_start + 2
    /\ sp_result.infos # sp_infos

\* (max.x - min.x) * (max.y - min.y) of a volume with finite coordinates
ExactArea(b) == (b.max[1] - b.min[1]) * (b.max[2] - b.min[2])

\* leftCount * leftArea + rightCount * rightArea for the two sides of a
\* boundary (sets of indices of the range), the areas being those of the
\* merged input volumes of each side; the cost of the boundary is
\* 0.125 + BoundaryCostSum(left, right) / overallArea
BoundaryCostSum(left, right) ==
    Cardinality(left) * ExactArea(ExactUnion(left))
        + Cardinality(right) * ExactArea(ExactUnion(right))

\* C22  SAH boundary choice: when the overall bound has positive surface
\* area, a call of split_surface_area_heuristic that partitions does so at
\* the lowest boundary k of minimum cost(k) = 0.125 + (leftCount * leftArea +
\* rightCount * rightArea) / overallArea; after the partition exactly the
\* elements whose bucket index is <= k are in [start, mid).
SahBoundaryChoice ==
    (/\ SplitReturned
     /\ sp_mode = "surface_area_heuristic"
     /\ sp_result.mid # sp_start
     /\ ExactArea(SplitBounds) > 0) =>
        LET centroid_bound == SplitCentroidBound
            dim == max_dimension(centroid_bound)
            boundaries == 0 .. buckets_count - 2
            before == [i \in SplitRange |-> bucket_location(sp_infos[i], centroid_bound, dim)]
            after == [i \in SplitRange |->
                        bucket_location(sp_result.infos[i], centroid_bound, dim)]
            sums == [k \in boundaries |->
                        BoundaryCostSum({ i \in SplitRange : before[i] <= k },
                                        { i \in SplitRange : before[i] > k })]
            best == CHOOSE k \in boundaries :
                        \A j \in boundaries : sums[k] < sums[j] \/ (sums[k] = sums[j] /\ k <= j)
        IN  /\ SplitPermutedRange
            /\ sp_result.mid = sp_start + Cardinality({ i \in SplitRange : before[i] <= best })
            /\ \A i \in SplitRange : after[i] <= best <=> i < sp_result.mid

\* the sum of the count fields of the leaves below a node
RECURSIVE LeafCountBelow(_)
LeafCountBelow(n) ==
    IF pool[n].left = NULL /\ pool[n].right = NULL THEN pool[n].count
    ELSE LeafCountBelow(pool[n].left) + LeafCountBelow(pool[n].right)

\* C23  Cached counts: after construction the count field of every internal
\* node equals the sum of the count fields of its descendant leaves, and the
\* count of the root equals N, in every mode.
CachedCounts ==
    Built =>
        /\ pool[root].count = InputSize
        /\ \A n \in InternalNodes : pool[n].count = LeafCountBelow(n)

\* a tree over three elements with an internal node below the root that
\* caches the count 2
CachedCountsWitness ==
    /\ Built
    /\ InputSize = 3
    /\ pool[root].count = 3
    /\ \E n \in InternalNodes : n # root /\ pool[n].count = 2

\* C24  stack_allocator growth: a call of allocate(count) or construct()
\* never fails the assertion mMemorySpace > space_need of
\* expand_if_not_enough and leaves space() strictly greater than the size it
\* asked for, also when the request makes size reach exactly the current
\* space; hence size() <= space() whenever the allocator is usable.
StackGrowth ==
    /\ sa_last.op \in {"allocate", "construct"} =>
          /\ sa_phase # "aborted"
          /\ mMemorySpace > sa_last.size_before + sa_last.count
    /\ sa_phase = "ready" => mMemorySize <= mMemorySpace

\* C25  Arena lifecycle: the node arena stays allocated, whole, from
\* construction to the destruction of the index, and once the index is
\* destroyed the arena has been released: no arena remains allocated.
ArenaLifecycle ==
    /\ phase \in {"building", "built"} => arena = 1
    /\ phase = "destroyed" => arena = 0

\* every activation of recursive_build is on a non-empty range, and every
\* activation but the first is on one of the two parts [start, mid) and
\* [mid, end) of its caller's range, with start < mid < end
ShrinkingRanges ==
    \A k \in 1 .. Len(stack) :
        /\ stack[k].start < stack[k].end
        /\ k > 1 =>
              LET parent == stack[k - 1]
              IN  /\ parent.start < parent.mid /\ parent.mid < parent.end
                  /\ \/ stack[k].start = parent.start /\ stack[k].end = parent.mid
                     \/ stack[k].start = parent.mid /\ stack[k].end = parent.end

\* C26  Build termination: for every input with N >= 1 and every valid mode
\* recursive_build terminates, and every recursive call is made on a
\* non-empty range strictly smaller than its parent's range (start < mid <
\* end at every split).
BuildTerminates ==
    /\ [] ShrinkingRanges
    /\ (phase = "building") ~> (phase = "built")

\* a finished build that recursed below a child of the root: two splits, five
\* nodes
BuildTerminatesWitness ==
    /\ phase = "built"
    /\ split_calls >= 2
    /\ count = 5

\* how many positions of the range hold the record r in the vector v
RangeCount(v, r) == Cardinality({ i \in SplitRange : v[i] = r })

\* C27  Split frame condition: each split strategy (middle, equal_counts,
\* surface_area_heuristic) called on [start, end) only permutes element-info
\* records inside that range: the records at indices outside [start, end) are
\* unchanged, every record occurs in the range as often as before, and every
\* record of the range has the bound its element had before the call.
SplitFrame ==
    SplitReturned =>
        /\ DOMAIN sp_result.infos = DOMAIN sp_infos
        /\ \A i \in DOMAIN sp_infos \ SplitRange : sp_result.infos[i] = sp_infos[i]
        /\ \A i \in SplitRange :
              /\ RangeCount(sp_result.infos, sp_infos[i]) = RangeCount(sp_infos, sp_infos[i])
              /\ RangeCount(sp_result.infos, sp_result.infos[i])
                    = RangeCount(sp_infos, sp_result.infos[i])
              /\ \E j \in SplitRange :
                    /\ sp_infos[j].element = sp_result.infos[i].element
                    /\ sp_infos[j].bound = sp_result.infos[i].bound

\* a Surface-Area-Heuristic call that moved records of the range while
\* records outside the range exist
SplitFrameWitness ==
    /\ SplitReturned
    /\ sp_mode = "surface_area_heuristic"
    /\ DOMAIN sp_infos \ SplitRange # {}
    /\ sp_result.infos # sp_infos
    /\ \E i \in SplitRange : sp_infos[i].bound # sp_result.infos[i].bound

====
